---- MODULE Spec2Model ----
(***************************************************************************)
(* A model of abinit_bands_to_csv.py: the scan of an Abinit .out file for  *)
(* band-structure datasets (find_datasets), the choice of one dataset by   *)
(* the -c option (the __main__ block) and its conversion to csv rows       *)
(* (convert_to_csv).                                                       *)
(*                                                                         *)
(* Text is modelled character by character: a Python str is a sequence of  *)
(* one-character strings, a line of the file is such a sequence ending in  *)
(* "\n".  The three regular expressions are matched on those characters.   *)
(* A float64 is modelled in fixed point, as an integer number of tenths;   *)
(* sqrt is the integer square root (rounded down) in that unit.            *)
(***************************************************************************)
EXTENDS Integers, Sequences, FiniteSets, TLC

(***************************************************************************)
(* Bounds of the model.                                                    *)
(***************************************************************************)
\* longest file built line by line from SampleLines
MaxLines == 3
\* most lines after the header of a file built from one header and BodySamples
MaxBody == 4
\* largest number of header-plus-block units in a file built from blocks
MaxBlocks == 2
\* most lines cut from the end of a file built from blocks
MaxCut == 2
\* -c numbers tried: -MaxIdx .. MaxIdx
MaxIdx == 3

(***************************************************************************)
(* Characters and character classes.                                       *)
(***************************************************************************)
Digit == {"0", "1", "2", "3", "4", "5", "6", "7", "8", "9"}

Letter == {"a", "b", "c", "d", "e", "f", "g", "h", "i", "j", "k", "l", "m",
           "n", "o", "p", "q", "r", "s", "t", "u", "v", "w", "x", "y", "z",
           "A", "B", "C", "D", "E", "F", "G", "H", "I", "J", "K", "L", "M",
           "N", "O", "P", "Q", "R", "S", "T", "U", "V", "W", "X", "Y", "Z"}

\* \w of the header expression
WordChar == Letter \cup Digit \cup {"_"}

\* [\-0-9\.] of the coords and value expressions
NumChar == Digit \cup {"-", "."}

Space == {" "}

DigitValue(ch) ==
    CASE ch = "0" -> 0 [] ch = "1" -> 1 [] ch = "2" -> 2 [] ch = "3" -> 3
      [] ch = "4" -> 4 [] ch = "5" -> 5 [] ch = "6" -> 6 [] ch = "7" -> 7
      [] ch = "8" -> 8 [] ch = "9" -> 9

DigitChar(d) ==
    CASE d = 0 -> "0" [] d = 1 -> "1" [] d = 2 -> "2" [] d = 3 -> "3"
      [] d = 4 -> "4" [] d = 5 -> "5" [] d = 6 -> "6" [] d = 7 -> "7"
      [] d = 8 -> "8" [] d = 9 -> "9"

\* the code point of a digit
Ord(ch) == 48 + DigitValue(ch)

(***************************************************************************)
(* The literal parts of the regular expressions.                           *)
(***************************************************************************)
LitEigenvalues == <<"E", "i", "g", "e", "n", "v", "a", "l", "u", "e", "s", " ", "(">>
LitForNkpt == <<")", " ", "f", "o", "r", " ", "n", "k", "p", "t", "=">>
LitKPoints == <<"k", " ", "p", "o", "i", "n", "t", "s", ":">>
LitKpt == <<"k", "p", "t", "=">>

(***************************************************************************)
(* Matching.                                                               *)
(***************************************************************************)
\* s[i..j-1], empty when j <= i
Slice(s, i, j) == SubSeq(s, i, j - 1)

\* the literal lit stands in s at position i
MatchLit(s, i, lit) ==
    /\ i + Len(lit) - 1 <= Len(s)
    /\ \A j \in 1..Len(lit) : s[i + j - 1] = lit[j]

\* the end of the longest run of characters of class cls that starts at i:
\* the first position >= i that holds no character of cls (a greedy * or +)
RECURSIVE RunEnd(_, _, _)
RunEnd(s, i, cls) ==
    IF i <= Len(s) /\ s[i] \in cls THEN RunEnd(s, i + 1, cls) ELSE i

NoMatch == [matched |-> FALSE]

\* HeaderAt with (\w*) for (\w+): a header without a unit matches
HeaderAt_EmptyUnit(line, p) ==
    IF ~MatchLit(line, p, LitEigenvalues) THEN NoMatch
    ELSE LET a == RunEnd(line, p + Len(LitEigenvalues), Space)
             b == RunEnd(line, a, WordChar)
             c == RunEnd(line, b, Space)
         IN  IF ~MatchLit(line, c, LitForNkpt) THEN NoMatch
             ELSE LET d == RunEnd(line, c + Len(LitForNkpt), Space)
                      e == RunEnd(line, d, Digit)
                      f == RunEnd(line, e, Space)
                  IN  IF e = d \/ ~MatchLit(line, f, LitKPoints) THEN NoMatch
                      ELSE [matched |-> TRUE,
                            groups |-> <<Slice(line, a, b), Slice(line, d, e)>>]

\* the header expression tried at position p of the line.  Every repeated
\* class is followed by a character outside it, so the greedy match is the
\* only one and nothing is backtracked.
HeaderAt(line, p) ==
    IF ~MatchLit(line, p, LitEigenvalues) THEN NoMatch
    ELSE LET a == RunEnd(line, p + Len(LitEigenvalues), Space)
             b == RunEnd(line, a, WordChar)
             c == RunEnd(line, b, Space)
         IN  IF b = a \/ ~MatchLit(line, c, LitForNkpt) THEN NoMatch
             ELSE LET d == RunEnd(line, c + Len(LitForNkpt), Space)
                      e == RunEnd(line, d, Digit)
                      f == RunEnd(line, e, Space)
                  IN  IF e = d \/ ~MatchLit(line, f, LitKPoints) THEN NoMatch
                      ELSE [matched |-> TRUE,
                            groups |-> <<Slice(line, a, b), Slice(line, d, e)>>]

\* the coords expression tried at position p of the line
CoordsAt(line, p) ==
    IF ~MatchLit(line, p, LitKpt) THEN NoMatch
    ELSE LET a == RunEnd(line, p + Len(LitKpt), Space)
             b == RunEnd(line, a, NumChar)
             c == RunEnd(line, b, Space)
             d == RunEnd(line, c, NumChar)
             e == RunEnd(line, d, Space)
             f == RunEnd(line, e, NumChar)
         IN  IF a = p + Len(LitKpt) \/ b = a \/ c = b \/ d = c \/ e = d \/ f = e
             THEN NoMatch
             ELSE [matched |-> TRUE,
                   groups |-> <<Slice(line, a, b), Slice(line, c, d),
                                Slice(line, e, f)>>]

\* re.search(regexps["header"], line) from position p on: the match at the
\* leftmost position that has one
RECURSIVE SearchHeaderFrom(_, _)
SearchHeaderFrom(line, p) ==
    IF p > Len(line) THEN NoMatch
    ELSE IF HeaderAt(line, p).matched THEN HeaderAt(line, p)
    ELSE SearchHeaderFrom(line, p + 1)

SearchHeader(line) == SearchHeaderFrom(line, 1)

\* re.search(regexps["coords"], line) from position p on
RECURSIVE SearchCoordsFrom(_, _)
SearchCoordsFrom(line, p) ==
    IF p > Len(line) THEN NoMatch
    ELSE IF CoordsAt(line, p).matched THEN CoordsAt(line, p)
    ELSE SearchCoordsFrom(line, p + 1)

SearchCoords(line) == SearchCoordsFrom(line, 1)

\* re.findall(regexps["value"], line): the maximal runs of [\-0-9\.], left
\* to right
RECURSIVE FindAllFrom(_, _)
FindAllFrom(line, p) ==
    IF p > Len(line) THEN <<>>
    ELSE IF line[p] \in NumChar
         THEN <<Slice(line, p, RunEnd(line, p, NumChar))>>
                  \o FindAllFrom(line, RunEnd(line, p, NumChar))
         ELSE FindAllFrom(line, p + 1)

FindAllValues(line) == FindAllFrom(line, 1)

(***************************************************************************)
(* Conversions between text and numbers.                                   *)
(***************************************************************************)
\* the value of a string of decimal digits
RECURSIVE DigitsValue(_)
DigitsValue(s) ==
    IF s = <<>> THEN 0
    ELSE 10 * DigitsValue(SubSeq(s, 1, Len(s) - 1)) + DigitValue(s[Len(s)])

AllDigits(s) == s # <<>> /\ \A i \in 1..Len(s) : s[i] \in Digit

\* int(s) on the characters of the model: an optional sign, then digits.
\* [ok |-> FALSE] stands for ValueError.
PyInt(s) ==
    IF AllDigits(s) THEN [ok |-> TRUE, val |-> DigitsValue(s)]
    ELSE IF s # <<>> /\ s[1] \in {"-", "+"} /\ AllDigits(Tail(s))
         THEN [ok |-> TRUE,
               val |-> IF s[1] = "-" THEN 0 - DigitsValue(Tail(s))
                       ELSE DigitsValue(Tail(s))]
         ELSE [ok |-> FALSE]

\* str(n) of a natural number
RECURSIVE NatStr(_)
NatStr(n) ==
    IF n < 10 THEN <<DigitChar(n)>> ELSE NatStr(n \div 10) \o <<DigitChar(n % 10)>>

\* str(n) of an integer
PyStr(n) == IF n < 0 THEN <<"-">> \o NatStr(0 - n) ELSE NatStr(n)

\* float(s) on a string of [\-0-9\.] characters: an optional "-", digits
\* with at most one "." among them and at least one digit.  The value is in
\* tenths (digits after the first decimal are dropped by the fixed point).
\* [ok |-> FALSE] stands for ValueError.
PyFloat(s) ==
    LET neg  == s # <<>> /\ s[1] = "-"
        body == IF neg THEN Tail(s) ELSE s
        ip   == RunEnd(body, 1, Digit)
        dot  == ip <= Len(body) /\ body[ip] = "."
        fs   == IF dot THEN ip + 1 ELSE ip
        fe   == RunEnd(body, fs, Digit)
        int  == DigitsValue(Slice(body, 1, ip))
        frac == IF fe > fs THEN DigitValue(body[fs]) ELSE 0
        mag  == 10 * int + frac
    IN  IF fe = Len(body) + 1 /\ (ip > 1 \/ fe > fs)
        THEN [ok |-> TRUE, val |-> IF neg THEN 0 - mag ELSE mag]
        ELSE [ok |-> FALSE]

\* sqrt, rounded down
ISqrt(n) == CHOOSE r \in 0..n : r * r <= n /\ n < (r + 1) * (r + 1)

\* a > b of two Python strings of digits: the order of the code points at
\* the first place they differ, a longer string above its prefix
RECURSIVE StrGreater(_, _)
StrGreater(a, b) ==
    IF a = <<>> THEN FALSE
    ELSE IF b = <<>> THEN TRUE
    ELSE IF a[1] # b[1] THEN Ord(a[1]) > Ord(b[1])
    ELSE StrGreater(Tail(a), Tail(b))

(***************************************************************************)
(* The input: the lines of the .out file and the -c option.                *)
(***************************************************************************)
\* a line "Eigenvalues ( UNIT ) for nkpt= N k points:" of the file
HeaderLine(unit, n) ==
    <<" ">> \o LitEigenvalues \o <<" ">> \o unit \o <<" ">> \o LitForNkpt
        \o <<" ">> \o n \o <<" ">> \o LitKPoints \o <<"\n">>

\* a line "kpt= X Y Z" of the file
CoordsLine(x, y, z) ==
    <<" ">> \o LitKpt \o <<" ", " ">> \o x \o <<" ">> \o y \o <<" ", " ">> \o z
        \o <<"\n">>

Ha == <<"H", "a">>

H0 == HeaderLine(Ha, <<"0">>)
H1 == HeaderLine(Ha, <<"1">>)
H2 == HeaderLine(Ha, <<"2">>)
KA == CoordsLine(<<"0", ".", "0">>, <<"0", ".", "0">>, <<"0", ".", "0">>)
KB == CoordsLine(<<"1", ".", "0">>, <<"0", ".", "0">>, <<"0", ".", "0">>)
\* the coords expression matches it, float() refuses "1.2.3", "-" and "."
KBad == CoordsLine(<<"1", ".", "2", ".", "3">>, <<"-">>, <<".">>)
VA == <<" ", "1", ".", "0", " ", " ", "2", ".", "0", "\n">>
\* a line that holds no number
TXT == <<" ", "x", "\n">>
\* a header line but for its unit, which is missing
NearHeader ==
    <<" ">> \o LitEigenvalues \o <<" ", " ">> \o LitForNkpt \o <<" ", "1", " ">>
        \o LitKPoints \o <<"\n">>

HeaderSamples == {H0, H1, H2}
OtherSamples == {KA, KB, KBad, VA, TXT, NearHeader}
SampleLines == HeaderSamples \cup OtherSamples

SeqsUpTo(S, n) == UNION {[1..m -> S] : m \in 0..n}

\* every file of at most MaxLines lines, each one of SampleLines
SmallFiles == SeqsUpTo(SampleLines, MaxLines)

\* the lines that follow the header of a HeadedFiles file
BodySamples == {KA, KB, KBad, VA, TXT}

\* a header declaring two k-points, then at most MaxBody lines, each one of
\* BodySamples, in any order
HeadedFiles == {<<H2>> \o body : body \in SeqsUpTo(BodySamples, MaxBody)}

\* the file of the documented scenario: a header for two k-points and the
\* points (0,0,0) with energies 1.0 2.0 and (1,0,0) with energies 3.0 4.0
RoundTripFile ==
    << LitEigenvalues \o <<" ", "H", "a", "r", "t", "r", "e", "e", " ">>
           \o LitForNkpt \o <<" ", "2", " ">> \o LitKPoints \o <<"\n">>,
       LitKpt \o <<" ", "0", ".", "0", " ", "0", ".", "0", " ", "0", ".", "0", "\n">>,
       <<"1", ".", "0", " ", "2", ".", "0", "\n">>,
       LitKpt \o <<" ", "1", ".", "0", " ", "0", ".", "0", " ", "0", ".", "0", "\n">>,
       <<"3", ".", "0", " ", "4", ".", "0", "\n">> >>

\* the point counts of the headers of the files built from blocks
PointCounts == {0, 1, 2, 9, 10}

\* the coordinates line of the i-th k-point of a block
PointLine(i) ==
    CoordsLine(<<DigitChar(i % 3), ".", "0">>, <<"-", "0", ".", "5">>,
               <<"0", ".", DigitChar((2 * i) % 10)>>)

\* the eigenvalues line of the i-th k-point of a block
EnergyLine(i) ==
    <<" ", " ">> \o PyStr(0 - i) \o <<".", "5", " ", " ">> \o PyStr(i)
        \o <<".", "0", "\n">>

\* a header declaring n points and the 2*n lines of its block
Block(n) ==
    <<HeaderLine(Ha, PyStr(n))>>
        \o [j \in 1..(2 * n) |->
               IF j % 2 = 1 THEN PointLine((j + 1) \div 2)
               ELSE EnergyLine(j \div 2)]

RECURSIVE Blocks(_)
Blocks(ns) == IF ns = <<>> THEN <<>> ELSE Block(Head(ns)) \o Blocks(Tail(ns))

\* the file without its last t lines
Cut(f, t) == SubSeq(f, 1, IF Len(f) > t THEN Len(f) - t ELSE 0)

\* files made of at most MaxBlocks whole blocks, the end of the file cut
\* off by at most MaxCut lines
BlockFiles ==
    {Cut(Blocks(ns), t) : ns \in SeqsUpTo(PointCounts, MaxBlocks), t \in 0..MaxCut}

\* args.c as argparse leaves it: the str "b" when -c is not given (the
\* default), a list of one str when it is (nargs=1)
DefaultChoice == [list |-> FALSE, s |-> <<"b">>]
GivenChoice(tok) == [list |-> TRUE, s |-> tok]

\* the words given with -c
NumberTokens == {PyStr(n) : n \in (0 - MaxIdx)..MaxIdx}
OtherTokens == {<<"b">>, <<"l">>, <<"x">>, <<>>, <<"-">>, <<"+", "1">>}

Choices == {DefaultChoice} \cup {GivenChoice(t) : t \in NumberTokens \cup OtherTokens}
FewChoices == {DefaultChoice, GivenChoice(<<"0">>), GivenChoice(<<"-", "1">>)}

\* args.input_file[0]
InputName == "abinit.out"

(***************************************************************************)
(* The state of a run.                                                     *)
(***************************************************************************)
VARIABLES
    file,               \* the lines of the input file
    c,                  \* args.c
    pc,                 \* where the run is: "scan", "select", "call",
                        \* "convert", "done" or "failed"
    pos,                \* number of lines find_datasets has read
    datasets,           \* find_datasets: datasets
    data_lines_ahead,   \* find_datasets: data_lines_ahead
    requested_set,      \* __main__: requested_set, a Python index
    error,              \* the exception that ended the run, or NoError
    output,             \* the rows given to ostream.writerow, in order
    li,                 \* convert_to_csv: number of lines of dataset[2] done
    path_length,        \* convert_to_csv: path_length, in tenths
    out_line,           \* convert_to_csv: out_line
    k,                  \* convert_to_csv: k, in tenths
    k_old               \* convert_to_csv: k_old, <<>> for None

vars == <<file, c, pc, pos, datasets, data_lines_ahead, requested_set, error,
          output, li, path_length, out_line, k, k_old>>

scanVars == <<pos, datasets, data_lines_ahead>>
convVars == <<li, path_length, out_line, k, k_old>>

NoError == [type |-> "none"]

\* IndexError(error_string) of __main__
NoSuchDataset(tok, n) ==
    [type |-> "IndexError", msg |-> "No such dataset", requested |-> tok,
     sets |-> PyStr(n), from |-> PyStr(0 - n), to |-> PyStr(n - 1)]

\* the IndexError of a list subscript
ListIndexError == [type |-> "IndexError", msg |-> "list index out of range"]

\* the ValueError of float()
FloatError(tok) ==
    [type |-> "ValueError", msg |-> "could not convert string to float",
     arg |-> tok]

\* the subscript i of a Python list does not raise IndexError
InRange(seq, i) == 0 - Len(seq) <= i /\ i <= Len(seq) - 1

\* PyItem with a negative i counted from the start
PyItem_FromStart(seq, i) == IF i >= 0 THEN seq[i + 1] ELSE seq[0 - i]

\* seq[i] of a Python list: i counts from 0, a negative i from the end
PyItem(seq, i) == IF i >= 0 THEN seq[i + 1] ELSE seq[Len(seq) + i + 1]

\* a cell of a csv row: a float, a str or the text of a descriptive line
FloatCell(v) == [float |-> v]
StrCell(s) == [str |-> s]

Init ==
    /\ \/ file \in SmallFiles \cup HeadedFiles \cup {RoundTripFile} /\ c \in FewChoices
       \/ file \in BlockFiles /\ c \in Choices
    /\ pc = "scan"
    /\ pos = 0
    /\ datasets = <<>>
    /\ data_lines_ahead = 0
    /\ requested_set = 0
    /\ error = NoError
    /\ output = <<>>
    /\ li = 0
    /\ path_length = 0
    /\ out_line = <<>>
    /\ k = <<0, 0, 0>>
    /\ k_old = <<>>

(***************************************************************************)
(* find_datasets.                                                          *)
(***************************************************************************)
\* datasets.append(list(header.groups())); datasets[-1].append(list())
NewDataset(groups) == [unit |-> groups[1], nkpt |-> groups[2], lines |-> <<>>]

\* AppendLine with datasets[0] for datasets[-1]
AppendLine_First(ds, line) ==
    [ds EXCEPT ![1].lines = Append(@, line)]

\* datasets[-1][2].append(line)
AppendLine(ds, line) ==
    [ds EXCEPT ![Len(ds)].lines = Append(@, line)]

\* LinesAhead with the block of one point for a header of zero points
LinesAhead_AtLeastOnePoint(groups) ==
    IF PyInt(groups[2]).val = 0 THEN 2 ELSE PyInt(groups[2]).val * 2

\* LinesAhead without the *2: one line per k-point
LinesAhead_OnePerPoint(groups) == PyInt(groups[2]).val

\* int(header.groups()[1])*2
LinesAhead(groups) == PyInt(groups[2]).val * 2

\* FindDatasetsLine with the header looked for in every line, also inside
\* a block
FindDatasetsLine_Reentrant ==
    /\ pc = "scan"
    /\ pos < Len(file)
    /\ LET line == file[pos + 1]
           header == SearchHeader(line)
       IN  IF header.matched
           THEN /\ datasets' = Append(datasets, NewDataset(header.groups))
                /\ data_lines_ahead' = LinesAhead(header.groups)
           ELSE IF data_lines_ahead = 0
                THEN UNCHANGED <<datasets, data_lines_ahead>>
                ELSE /\ datasets' = AppendLine(datasets, line)
                     /\ data_lines_ahead' = data_lines_ahead - 1
    /\ pos' = pos + 1
    /\ UNCHANGED <<file, c, pc, requested_set, error, output>>
    /\ UNCHANGED convVars

\* one turn of "for line in file"
FindDatasetsLine ==
    /\ pc = "scan"
    /\ pos < Len(file)
    /\ LET line == file[pos + 1]
           header == SearchHeader(line)
       IN  IF data_lines_ahead = 0
           THEN IF header.matched
                THEN /\ datasets' = Append(datasets, NewDataset(header.groups))
                     /\ data_lines_ahead' = LinesAhead(header.groups)
                ELSE UNCHANGED <<datasets, data_lines_ahead>>
           ELSE /\ datasets' = AppendLine(datasets, line)
                /\ data_lines_ahead' = data_lines_ahead - 1
    /\ pos' = pos + 1
    /\ UNCHANGED <<file, c, pc, requested_set, error, output>>
    /\ UNCHANGED convVars

\* FindDatasetsReturn raising when the file ends inside a block
FindDatasetsReturn_Strict ==
    /\ pc = "scan"
    /\ pos = Len(file)
    /\ IF data_lines_ahead = 0
       THEN pc' = "select" /\ UNCHANGED error
       ELSE pc' = "failed" /\ error' = [type |-> "ValueError", msg |-> "truncated"]
    /\ UNCHANGED <<file, c, requested_set, output>>
    /\ UNCHANGED scanVars
    /\ UNCHANGED convVars

\* FindDatasetsReturn as soon as a first block is complete
FindDatasetsReturn_Early ==
    /\ pc = "scan"
    /\ pos = Len(file) \/ (datasets # <<>> /\ data_lines_ahead = 0)
    /\ pc' = "select"
    /\ UNCHANGED <<file, c, requested_set, error, output>>
    /\ UNCHANGED scanVars
    /\ UNCHANGED convVars

\* the end of the file: return datasets
FindDatasetsReturn ==
    /\ pc = "scan"
    /\ pos = Len(file)
    /\ pc' = "select"
    /\ UNCHANGED <<file, c, requested_set, error, output>>
    /\ UNCHANGED scanVars
    /\ UNCHANGED convVars

(***************************************************************************)
(* __main__: the choice of the dataset.                                    *)
(***************************************************************************)
\* args.c == lit: a list never equals a str
EqualsStr(choice, lit) == ~choice.list /\ choice.s = lit

\* args.c[0]: the word of the list, the first character of a str
FirstItem(choice) == IF choice.list THEN choice.s ELSE <<choice.s[1]>>

\* datasets[i][1] > datasets[requested_set][1]: both are the str captured
\* from the header
MoreKPoints(ds, i, best) == StrGreater(PyItem(ds, i).nkpt, PyItem(ds, best).nkpt)

\* for i in range(len(datasets)): if ...: requested_set=i
RECURSIVE BiggestFrom(_, _, _)
BiggestFrom(ds, i, best) ==
    IF i >= Len(ds) THEN best
    ELSE BiggestFrom(ds, i + 1, IF MoreKPoints(ds, i, best) THEN i ELSE best)

Biggest(ds) == BiggestFrom(ds, 0, 0)

\* OutOfRange with len(datasets) for len(datasets)-1
OutOfRange_OffByOne(ds, n) == ~(0 - Len(ds) <= n /\ n <= Len(ds))

\* not -len(datasets)<=requested_set<=len(datasets)-1
OutOfRange(ds, n) == ~(0 - Len(ds) <= n /\ n <= Len(ds) - 1)

\* "check which dataset user requested"
ChooseDataset ==
    /\ pc = "select"
    /\ IF EqualsStr(c, <<"b">>)
       THEN /\ requested_set' = Biggest(datasets)
            /\ pc' = "call"
            /\ UNCHANGED error
       ELSE IF EqualsStr(c, <<"l">>)
       THEN /\ requested_set' = 0 - 1
            /\ pc' = "call"
            /\ UNCHANGED error
       ELSE LET tok == FirstItem(c)
                n == PyInt(tok)
            IN  IF ~n.ok
                THEN /\ error' = NoSuchDataset(tok, Len(datasets))
                     /\ pc' = "failed"
                     /\ UNCHANGED requested_set
                ELSE /\ requested_set' = n.val
                     /\ IF OutOfRange(datasets, n.val)
                        THEN /\ error' = NoSuchDataset(tok, Len(datasets))
                             /\ pc' = "failed"
                        ELSE /\ pc' = "call"
                             /\ UNCHANGED error
    /\ UNCHANGED <<file, c, output>>
    /\ UNCHANGED scanVars
    /\ UNCHANGED convVars

(***************************************************************************)
(* convert_to_csv.                                                         *)
(***************************************************************************)
\* the three descriptive rows
DescriptiveRows(dataset, name) ==
    << <<[text |-> <<" Band structure: file generated from Abinit ", name,
                     " file. ">>]>>,
       <<[text |-> <<" Eigenvalues (", dataset.unit, ") for nkpt= ",
                     dataset.nkpt, " k points. ">>]>>,
       <<[text |-> <<" Format: total path length, kx, ky, kz, one or more energy eigenvalues. ">>]>> >>

\* CallConvert with the row naming the file written by __main__, ahead of
\* the subscript
CallConvert_NameFirst ==
    /\ pc = "call"
    /\ IF ~InRange(datasets, requested_set)
       THEN /\ error' = ListIndexError
            /\ pc' = "failed"
            /\ output' = <<DescriptiveRows([unit |-> <<>>, nkpt |-> <<>>], InputName)[1]>>
       ELSE /\ output' = DescriptiveRows(PyItem(datasets, requested_set), InputName)
            /\ pc' = "convert"
            /\ UNCHANGED error
    /\ li' = 0
    /\ path_length' = 0
    /\ out_line' = <<>>
    /\ k' = <<0, 0, 0>>
    /\ k_old' = <<>>
    /\ UNCHANGED <<file, c, requested_set>>
    /\ UNCHANGED scanVars

\* the call convert_to_csv(datasets[requested_set], ostream, name), up to
\* the loop: the subscript, the descriptive rows and the helper variables
CallConvert ==
    /\ pc = "call"
    /\ IF ~InRange(datasets, requested_set)
       THEN /\ error' = ListIndexError
            /\ pc' = "failed"
            /\ UNCHANGED output
       ELSE /\ output' = DescriptiveRows(PyItem(datasets, requested_set), InputName)
            /\ pc' = "convert"
            /\ UNCHANGED error
    /\ li' = 0
    /\ path_length' = 0
    /\ out_line' = <<>>
    /\ k' = <<0, 0, 0>>
    /\ k_old' = <<>>
    /\ UNCHANGED <<file, c, requested_set>>
    /\ UNCHANGED scanVars

\* the dataset being converted
Dataset == PyItem(datasets, requested_set)

\* Floats with 0.0 in the place of a group float() refuses
Floats_DefaultZero(groups) ==
    [i \in 1..3 |-> IF PyFloat(groups[i]).ok THEN PyFloat(groups[i])
                    ELSE [ok |-> TRUE, val |-> 0]]

\* float() of the three groups, in order
Floats(groups) == [i \in 1..3 |-> PyFloat(groups[i])]

\* the first group float() refuses
FirstBad(groups) ==
    groups[CHOOSE i \in 1..3 :
              ~PyFloat(groups[i]).ok /\ \A j \in 1..(i - 1) : PyFloat(groups[j]).ok]

\* step_squared+=(k[i]-k_old[i])**2, for i in range(3)
StepSquared(new, old) ==
    (new[1] - old[1]) * (new[1] - old[1])
        + (new[2] - old[2]) * (new[2] - old[2])
        + (new[3] - old[3]) * (new[3] - old[3])

\* Advance with = for +=: the length of the last step alone
Advance_StepOnly(length, new, old) == ISqrt(StepSquared(new, old))

\* path_length+=sqrt(step_squared)
Advance(length, new, old) == length + ISqrt(StepSquared(new, old))

\* OldPoint with k_old started at the origin
OldPoint_Origin(old, new) == IF old = <<>> THEN <<0, 0, 0>> ELSE old

\* k_old as the step is computed: the current point when k_old is None
OldPoint(old, new) == IF old = <<>> THEN new ELSE old

\* out_line.append(path_length); out_line.append(k[i]) for i in range(3)
WithPoint(row, length, point) ==
    row \o <<FloatCell(length), FloatCell(point[1]), FloatCell(point[2]),
             FloatCell(point[3])>>

\* out_line.append(match) for match in re.findall(regexps['value'], line)
WithValues(row, line) ==
    row \o [i \in 1..Len(FindAllValues(line)) |-> StrCell(FindAllValues(line)[i])]

\* one turn of "for line in dataset[2]"
ConvertLine ==
    /\ pc = "convert"
    /\ li < Len(Dataset.lines)
    /\ LET line == Dataset.lines[li + 1]
           coords == SearchCoords(line)
       IN  IF coords.matched
           THEN IF \E i \in 1..3 : ~Floats(coords.groups)[i].ok
                THEN /\ error' = FloatError(FirstBad(coords.groups))
                     /\ pc' = "failed"
                     /\ UNCHANGED <<output, path_length, out_line, k, k_old>>
                ELSE LET new == [i \in 1..3 |-> Floats(coords.groups)[i].val]
                         length == Advance(path_length, new, OldPoint(k_old, new))
                     IN  /\ path_length' = length
                         /\ k' = new
                         /\ k_old' = new
                         /\ out_line' = WithPoint(out_line, length, new)
                         /\ UNCHANGED <<output, error, pc>>
           ELSE /\ output' = Append(output, WithValues(out_line, line))
                /\ out_line' = <<>>
                /\ UNCHANGED <<error, pc, path_length, k, k_old>>
    /\ li' = li + 1
    /\ UNCHANGED <<file, c, requested_set>>
    /\ UNCHANGED scanVars

\* ConvertReturn writing the row that is still pending
ConvertReturn_Flush ==
    /\ pc = "convert"
    /\ li = Len(Dataset.lines)
    /\ pc' = "done"
    /\ output' = IF out_line = <<>> THEN output ELSE Append(output, out_line)
    /\ UNCHANGED <<file, c, requested_set, error>>
    /\ UNCHANGED scanVars
    /\ UNCHANGED convVars

\* the end of dataset[2]: convert_to_csv returns and the run ends
ConvertReturn ==
    /\ pc = "convert"
    /\ li = Len(Dataset.lines)
    /\ pc' = "done"
    /\ UNCHANGED <<file, c, requested_set, error, output>>
    /\ UNCHANGED scanVars
    /\ UNCHANGED convVars

Next ==
    \/ FindDatasetsLine
    \/ FindDatasetsReturn
    \/ ChooseDataset
    \/ CallConvert
    \/ ConvertLine
    \/ ConvertReturn

Spec == Init /\ [][Next]_vars

(***************************************************************************)
(* Properties.                                                             *)
(***************************************************************************)
\* the dataset has been chosen (or the choice has failed)
Chosen == pc \notin {"scan", "select"}

\* the number of k-points a dataset declares
PointCount(d) == PyInt(d.nkpt).val

\* the word of the -c option, the default included
Word == c.s

\* the run was ended by the IndexError(error_string) of __main__
Refused == pc = "failed" /\ error.type = "IndexError" /\ error.msg = "No such dataset"

\* C1: the dataset chosen as the biggest declares at least as many k-points
\* as every dataset of the file, the counts compared as numbers.
C1_BiggestIsNumericMax ==
    (Chosen /\ EqualsStr(c, <<"b">>) /\ datasets # <<>>)
        => \A i \in 1..Len(datasets) :
               PointCount(datasets[i]) <= PointCount(PyItem(datasets, requested_set))

\* C2: when several datasets declare the greatest number of k-points, the
\* biggest choice is the last of them.
C2_LastBiggestWins ==
    (Chosen /\ EqualsStr(c, <<"b">>) /\ datasets # <<>>)
        => \A i \in 1..Len(datasets) :
               (\A j \in 1..Len(datasets) :
                    PointCount(datasets[j]) <= PointCount(datasets[i]))
                   => i - 1 <= requested_set

\* C3: the word "b" chooses the biggest dataset, "l" the last, a decimal
\* integer the dataset of that number, and every other word is refused;
\* the same for a word given with -c as for the default.
C3_PolicyWords ==
    Chosen =>
        IF Word = <<"b">> THEN ~Refused /\ requested_set = Biggest(datasets)
        ELSE IF Word = <<"l">> THEN ~Refused /\ requested_set = 0 - 1
        ELSE IF PyInt(Word).ok THEN requested_set = PyInt(Word).val
        ELSE Refused

\* C4: on a file with at least one dataset the words "l" and "-1" are both
\* accepted and both convert the last dataset of the file.
C4_LastIsMinusOne ==
    (Chosen /\ datasets # <<>> /\ Word \in {<<"l">>, <<"-", "1">>})
        => /\ ~Refused
           /\ pc # "call" =>
                  SubSeq(output, 1, 3)
                      = DescriptiveRows(datasets[Len(datasets)], InputName)

\* the -c word is a decimal integer given by the user
NumberGiven == c.list /\ PyInt(Word).ok
Number == PyInt(Word).val

\* C5: a number n given with -c is refused exactly when n < -len or
\* n > len-1, len the number of datasets; the error then names the word
\* given and the range from -len to len-1, and nothing is converted.
C5_RangeError ==
    (Chosen /\ NumberGiven) =>
        /\ Refused <=> (Number < 0 - Len(datasets) \/ Number > Len(datasets) - 1)
        /\ Refused =>
               /\ error.requested = Word
               /\ PyInt(error.from).val = 0 - Len(datasets)
               /\ PyInt(error.to).val = Len(datasets) - 1
               /\ output = <<>>
               /\ li = 0

C5_Witness ==
    /\ Refused /\ NumberGiven
    /\ Len(datasets) = 2
    /\ Number = 2

\* the place, counted from 1, of the dataset that the number n names
Place(n) == IF n >= 0 THEN n + 1 ELSE Len(datasets) + n + 1

\* the rows written after the three descriptive rows
Rows == SubSeq(output, 4, Len(output))

\* the number of lines of a dataset that the coords expression does not match
RECURSIVE ValueLines(_)
ValueLines(lines) ==
    IF lines = <<>> THEN 0
    ELSE ValueLines(Tail(lines))
             + (IF SearchCoords(Head(lines)).matched THEN 0 ELSE 1)

\* C6: a number n with -len <= n <= len-1 is accepted and converts the
\* dataset at position n counted from 0 when n >= 0, at position len+n
\* when n < 0: the descriptive rows name that dataset and its lines are the
\* ones converted.
C6_IndexSelects ==
    (Chosen /\ NumberGiven /\ 0 - Len(datasets) <= Number
        /\ Number <= Len(datasets) - 1)
        => /\ ~Refused
           /\ pc # "call" =>
                  /\ error # ListIndexError
                  /\ SubSeq(output, 1, 3)
                         = DescriptiveRows(datasets[Place(Number)], InputName)
           /\ pc = "done" =>
                  Len(Rows) = ValueLines(datasets[Place(Number)].lines)

C6_Witness ==
    /\ pc = "done" /\ NumberGiven
    /\ Number = 0 - 2
    /\ Len(datasets) = 2
    /\ datasets[1].nkpt # datasets[2].nkpt
    /\ Len(Rows) = 2

\* no line of the file is a header line
NoHeaderLine == \A i \in 1..Len(file) : file[i] \in OtherSamples

\* C7: a file without any header line gives no dataset, and then every
\* choice ends the run with an IndexError before a row is written.
C7_EmptyInputFails ==
    NoHeaderLine =>
        /\ datasets = <<>>
        /\ pc \notin {"convert", "done"}
        /\ output = <<>>
        /\ pc = "failed" => error.type = "IndexError"

C7_Witness ==
    /\ pc = "failed" /\ NoHeaderLine /\ Len(file) = 3
    /\ pc = "failed" /\ error = ListIndexError
    /\ EqualsStr(c, <<"b">>)

C7_WitnessIndex ==
    /\ NoHeaderLine
    /\ Refused /\ NumberGiven /\ Number = 0

\* the datasets of a file, read off the file: each header line met outside
\* a block, with the 2*N lines (or what is left of the file) that follow it
RECURSIVE FileDatasets(_, _)
FileDatasets(f, p) ==
    IF p > Len(f) THEN <<>>
    ELSE IF ~SearchHeader(f[p]).matched THEN FileDatasets(f, p + 1)
    ELSE LET g == SearchHeader(f[p]).groups
             n == 2 * DigitsValue(g[2])
             last == IF p + n <= Len(f) THEN p + n ELSE Len(f)
         IN  <<[unit |-> g[1], nkpt |-> g[2], lines |-> SubSeq(f, p + 1, last)]>>
                 \o FileDatasets(f, p + n + 1)

\* every header line met outside a block is followed by 2*N lines
RECURSIVE WellFormed(_, _)
WellFormed(f, p) ==
    IF p > Len(f) THEN TRUE
    ELSE IF ~SearchHeader(f[p]).matched THEN WellFormed(f, p + 1)
    ELSE LET n == 2 * DigitsValue(SearchHeader(f[p]).groups[2])
         IN  p + n <= Len(f) /\ WellFormed(f, p + n + 1)

\* C8: of a well-formed file, every dataset returned by the scan holds
\* exactly 2*pointCount lines, the lines that follow its header in the
\* file, unchanged and in order.
C8_WellFormedBlocks ==
    (pc = "select" /\ WellFormed(file, 1))
        => /\ datasets = FileDatasets(file, 1)
           /\ \A i \in 1..Len(datasets) :
                  Len(datasets[i].lines) = 2 * PointCount(datasets[i])

C8_Witness ==
    /\ pc = "select" /\ WellFormed(file, 1)
    /\ Len(datasets) = 2
    /\ PointCount(datasets[1]) = 2
    /\ PointCount(datasets[2]) = 1

\* the row starts with a path length
HasPath(row) == row # <<>> /\ DOMAIN row[1] = {"float"}
PathOf(row) == row[1].float

\* the coords expression matches the line and float() accepts its groups
IsPoint(line) ==
    /\ SearchCoords(line).matched
    /\ \A i \in 1..3 : PyFloat(SearchCoords(line).groups[i]).ok

\* the conversion of the chosen dataset has begun
Converting == pc \in {"convert", "done"} \/ (pc = "failed" /\ output # <<>>)

CutAfterPairs(d) ==
    /\ Len(d.lines) < 2 * PointCount(d)
    /\ Len(d.lines) % 2 = 0
    /\ \A j \in 1..Len(d.lines) :
           IF j % 2 = 1 THEN IsPoint(d.lines[j])
           ELSE ~SearchCoords(d.lines[j]).matched

\* the last line of the file that is a header line, 0 if there is none
RECURSIVE LastHeader(_, _)
LastHeader(f, p) ==
    IF p = 0 THEN 0
    ELSE IF SearchHeader(f[p]).matched THEN p
    ELSE LastHeader(f, p - 1)

\* the file holds one header line, and after it k whole pairs of a
\* coordinates line and an eigenvalues line, k less than the header declares
OneCutDataset ==
    LET h == LastHeader(file, Len(file))
    IN  /\ h > 0
        /\ LastHeader(file, h - 1) = 0
        /\ CutAfterPairs([nkpt |-> SearchHeader(file[h]).groups[2],
                          lines |-> SubSeq(file, h + 1, Len(file))])

\* C10: when the file ends inside the block of a dataset, after k whole
\* pairs of lines with k less than the declared point count, the scan
\* returns the dataset with those 2*k lines and its conversion writes k rows
\* and raises nothing.
C10_CutBlock ==
    (pc \in {"select", "done", "failed"} /\ c \in FewChoices /\ OneCutDataset)
        => /\ pc # "failed"
           /\ error = NoError
           /\ Len(datasets) = 1
           /\ datasets[1].lines
                  = SubSeq(file, LastHeader(file, Len(file)) + 1, Len(file))
           /\ pc = "done" => Len(Rows) * 2 = Len(datasets[1].lines)

C10_Witness ==
    /\ pc = "done" /\ OneCutDataset
    /\ PointCount(datasets[1]) = 9
    /\ Len(Rows) = 8

\* the lines are coordinates lines and eigenvalues lines in turn, a
\* coordinates line first, as many of the one as of the other
Alternating(lines) ==
    /\ Len(lines) % 2 = 0
    /\ \A j \in 1..Len(lines) :
           IF j % 2 = 1 THEN IsPoint(lines[j]) ELSE ~SearchCoords(lines[j]).matched

\* the i-th k-point of alternating lines, in tenths
PointAt(lines, i) ==
    [j \in 1..3 |-> PyFloat(SearchCoords(lines[2 * i - 1]).groups[j]).val]

\* the Euclidean distance of two points
Distance(p, q) ==
    ISqrt((p[1] - q[1]) * (p[1] - q[1]) + (p[2] - q[2]) * (p[2] - q[2])
              + (p[3] - q[3]) * (p[3] - q[3]))

\* the sum of the distances between consecutive k-points up to the i-th
RECURSIVE PathTo(_, _)
PathTo(lines, i) ==
    IF i <= 1 THEN 0
    ELSE PathTo(lines, i - 1) + Distance(PointAt(lines, i), PointAt(lines, i - 1))

\* the row of the i-th k-point of alternating lines
ExpectedRow(lines, i) ==
    <<FloatCell(PathTo(lines, i)), FloatCell(PointAt(lines, i)[1]),
      FloatCell(PointAt(lines, i)[2]), FloatCell(PointAt(lines, i)[3])>>
        \o [t \in 1..Len(FindAllValues(lines[2 * i])) |->
               StrCell(FindAllValues(lines[2 * i])[t])]

\* the rows of the documented scenario
RoundTripRows ==
    << <<FloatCell(0), FloatCell(0), FloatCell(0), FloatCell(0),
         StrCell(<<"1", ".", "0">>), StrCell(<<"2", ".", "0">>)>>,
       <<FloatCell(10), FloatCell(10), FloatCell(0), FloatCell(0),
         StrCell(<<"3", ".", "0">>), StrCell(<<"4", ".", "0">>)>> >>

\* C11: a dataset of N coordinates lines and N eigenvalues lines in turn is
\* converted to N rows in the order of the k-points, row i made of the sum
\* of the distances between consecutive k-points up to point i, the three
\* coordinates of point i and the numbers of its eigenvalues line from left
\* to right; the documented two-point scenario gives its two documented rows.
C11_AlternatingRows ==
    (pc = "done" /\ Alternating(Dataset.lines))
        => /\ Len(Rows) * 2 = Len(Dataset.lines)
           /\ \A i \in 1..Len(Rows) : Rows[i] = ExpectedRow(Dataset.lines, i)
           /\ file = RoundTripFile => Rows = RoundTripRows

C11_Witness ==
    /\ pc = "done"
    /\ file = RoundTripFile
    /\ Rows = RoundTripRows

IsFloat(cell) == DOMAIN cell = {"float"}
IsStr(cell) == DOMAIN cell = {"str"}

\* C12: every coordinates line starts a fresh pending row, whatever the
\* lines are: after a coordinates line the pending row holds just the path
\* length and the three coordinates of that line, and an emitted row that
\* holds a point holds one path length and one triple, then only energies.
C12_FreshPendingRow ==
    /\ (pc = "convert" /\ li >= 1 /\ IsPoint(Dataset.lines[li]))
           => out_line = <<FloatCell(path_length), FloatCell(k[1]),
                           FloatCell(k[2]), FloatCell(k[3])>>
    /\ Converting =>
           \A i \in 1..Len(Rows) :
               HasPath(Rows[i]) =>
                   /\ Len(Rows[i]) >= 4
                   /\ \A j \in 1..Len(Rows[i]) :
                          IF j <= 4 THEN IsFloat(Rows[i][j]) ELSE IsStr(Rows[i][j])

\* C13 as stated: whatever error ends a run, nothing has been written to
\* the output before it.
C13_NoOutputBeforeError ==
    pc = "failed" => output = <<>>

\* C13 as amended: an error of the choice of the dataset (no dataset, a
\* number out of range, a word that is no choice) ends the run before
\* anything is written; a coordinate that float() refuses ends it after the
\* descriptive rows and the rows of the lines before it have been written.
C13_ErrorsAndOutput ==
    pc = "failed" =>
        /\ error.type \in {"IndexError", "ValueError"}
        /\ error.type = "IndexError" => output = <<>> /\ li = 0
        /\ error.type = "ValueError" =>
               /\ SubSeq(output, 1, 3) = DescriptiveRows(Dataset, InputName)
               /\ Len(Rows) = ValueLines(SubSeq(Dataset.lines, 1, li - 1))

C13_Witness ==
    /\ pc = "failed"
    /\ error.type = "ValueError"
    /\ Len(Rows) = 1

\* the step reads the next line of the file
ReadsLine == pos' = pos + 1

\* the line the step reads
LineRead == file[pos + 1]

\* the step stores the line it reads at the end of the last dataset and
\* changes no other dataset
StoresLine ==
    /\ Len(datasets') = Len(datasets)
    /\ datasets # <<>>
    /\ datasets'[Len(datasets)].lines
           = Append(datasets[Len(datasets)].lines, LineRead)
    /\ \A i \in 1..(Len(datasets) - 1) : datasets'[i] = datasets[i]

\* the step starts a dataset, with no line yet, after the datasets there are
StartsDataset ==
    /\ Len(datasets') = Len(datasets) + 1
    /\ SubSeq(datasets', 1, Len(datasets)) = datasets
    /\ datasets'[Len(datasets')].lines = <<>>

\* C14: inside a block a line is stored as it is in the current dataset,
\* also when it is a header line, and starts no dataset; a dataset is
\* started only by a header line read outside a block.
C14_NotReentrant ==
    [][ReadsLine =>
           /\ data_lines_ahead > 0 => StoresLine
           /\ Len(datasets') # Len(datasets) =>
                  /\ data_lines_ahead = 0
                  /\ SearchHeader(LineRead).matched
                  /\ StartsDataset]_vars

C14_Witness ==
    /\ pc = "select"
    /\ Len(datasets) = 1
    /\ Len(datasets[1].lines) = 2
    /\ SearchHeader(datasets[1].lines[1]).matched

\* the number of the conditions that hold
HowMany(conds) == Cardinality({i \in 1..Len(conds) : conds[i]})

\* C15: the lines are read once each, in order; a line read starts a
\* dataset (a header line outside a block), or is dropped, or is stored in
\* the last dataset, and just one of the three; a dataset started is put
\* after the ones there are, so the datasets are in the order of their
\* header lines; no dataset is chosen before the last line is read.
C15_OneFate ==
    [][/\ pos' \in {pos, pos + 1}
       /\ ReadsLine =>
              /\ pc = "scan" /\ pc' = "scan"
              /\ HowMany(<<StartsDataset, datasets' = datasets, StoresLine>>) = 1
              /\ StartsDataset =>
                     /\ SearchHeader(LineRead).matched
                     /\ datasets'[Len(datasets')].nkpt
                            = SearchHeader(LineRead).groups[2]
       /\ ~ReadsLine => datasets' = datasets
       /\ pc' # "scan" => pos' = Len(file)]_vars

C15_Witness ==
    /\ pc = "select"
    /\ Len(file) = 3
    /\ ~SearchHeader(file[1]).matched
    /\ Len(datasets) = 1
    /\ datasets[1].lines = <<file[3]>>

\* float() accepts the coordinates of every coordinates line
AllPointsParse(lines) ==
    \A j \in 1..Len(lines) : SearchCoords(lines[j]).matched => IsPoint(lines[j])

\* C16: the conversion writes as many rows as the dataset has lines that are
\* not coordinates lines; when the last line is a coordinates line its
\* pending row is never written, and the conversion ends without an error.
C16_RowsAreValueLines ==
    /\ pc = "convert" => Len(Rows) = ValueLines(SubSeq(Dataset.lines, 1, li))
    /\ pc = "done" =>
           /\ Len(Rows) = ValueLines(Dataset.lines)
           /\ error = NoError
           /\ (Dataset.lines # <<>> /\ IsPoint(Dataset.lines[Len(Dataset.lines)]))
                  => out_line # <<>>
    /\ (Converting /\ AllPointsParse(Dataset.lines)) => pc # "failed"

C16_Witness ==
    /\ pc = "done"
    /\ Len(Dataset.lines) = 3
    /\ PointCount(Dataset) = 2
    /\ IsPoint(Dataset.lines[3])
    /\ Len(Rows) = 1
    /\ out_line # <<>>

\* the last dataset declares zero points
LastIsEmptyDataset ==
    /\ datasets # <<>>
    /\ PointCount(datasets[Len(datasets)]) = 0

\* C17: a dataset of zero points has no line, at any time; while it is the
\* last dataset no block is open, so the line read next starts a dataset
\* when it is a header line and is dropped otherwise.
C17_ZeroPointsClosedAtOnce ==
    [][/\ \A i \in 1..Len(datasets') :
              PointCount(datasets'[i]) = 0 => datasets'[i].lines = <<>>
       /\ LastIsEmptyDataset => data_lines_ahead = 0
       /\ (LastIsEmptyDataset /\ ReadsLine) =>
              /\ datasets'[Len(datasets)] = datasets[Len(datasets)]
              /\ SearchHeader(LineRead).matched => StartsDataset
              /\ ~SearchHeader(LineRead).matched => datasets' = datasets]_vars

C17_Witness ==
    /\ pc = "select"
    /\ Len(file) = 3
    /\ SearchHeader(file[1]).matched
    /\ SearchCoords(file[2]).matched
    /\ SearchHeader(file[3]).matched
    /\ Len(datasets) = 2
    /\ PointCount(datasets[1]) = 0
    /\ datasets[1].lines = <<>>

\* the lines of the dataset before line n that the coords expression does
\* not match
ValuesBefore(n) ==
    {j \in 1..(n - 1) : ~SearchCoords(Dataset.lines[j]).matched}

\* the coordinates lines of the dataset before line n with no values line
\* between them and line n
PendingBefore(n) ==
    {j \in 1..(n - 1) : \A m \in j..(n - 1) : SearchCoords(Dataset.lines[m]).matched}

\* the line the conversion reads next is a coordinates line
AtCoordsLine ==
    /\ pc = "convert"
    /\ li < Len(Dataset.lines)
    /\ SearchCoords(Dataset.lines[li + 1]).matched

\* C18: at a coordinates line the conversion goes on only when float()
\* accepts its three groups; otherwise it stops there with the ValueError of
\* a group float() refuses, the rows written and the pending row stay those
\* of the lines before it, and nothing is done after the error. A ValueError
\* has no other origin.
C18_BadPointStops ==
    [][/\ pc # "failed"
       /\ pc = "convert" =>
              /\ Len(Rows) = Cardinality(ValuesBefore(li + 1))
              /\ Len(out_line) = 4 * Cardinality(PendingBefore(li + 1))
       /\ AtCoordsLine =>
              IF IsPoint(Dataset.lines[li + 1])
              THEN pc' = "convert" /\ error' = NoError
              ELSE /\ pc' = "failed"
                   /\ error'.type = "ValueError"
                   /\ \E i \in 1..3 :
                          LET group == SearchCoords(Dataset.lines[li + 1]).groups[i]
                          IN  ~PyFloat(group).ok /\ error'.arg = group
                   /\ output' = output
                   /\ out_line' = out_line
       /\ (pc' = "failed" /\ error'.type = "ValueError") =>
              AtCoordsLine /\ ~IsPoint(Dataset.lines[li + 1])]_vars

C18_Witness ==
    /\ pc = "failed"
    /\ error.type = "ValueError"
    /\ li = 3
    /\ Len(Dataset.lines) = 4
    /\ Len(Rows) = 1
    /\ ~SearchCoords(Dataset.lines[4]).matched

\* the number of lines of the block of dataset d
BlockLength(d) == 2 * PointCount(d)

\* C19: the counter of the lines still to store is never negative and, once
\* there is a dataset, is the block length of the last dataset less the
\* lines it holds; every dataset before the last holds its whole block, and
\* no dataset holds more than its block.
C19_CounterAndBlocks ==
    /\ data_lines_ahead >= 0
    /\ datasets # <<>> =>
           data_lines_ahead
               = BlockLength(datasets[Len(datasets)])
                     - Len(datasets[Len(datasets)].lines)
    /\ \A i \in 1..(Len(datasets) - 1) :
           Len(datasets[i].lines) = BlockLength(datasets[i])
    /\ \A i \in 1..Len(datasets) :
           Len(datasets[i].lines) <= BlockLength(datasets[i])

C19_Witness ==
    /\ pc = "scan"
    /\ Len(datasets) = 2
    /\ datasets[1].lines # <<>>
    /\ datasets[2].lines # <<>>
    /\ data_lines_ahead > 0

====
